---- MODULE Spec2Model ----
(***************************************************************************)
(* Model of the vocabulary scheduler: LocalDatabaseService (the word       *)
(* store, recordReview with its cooldown, saveWord, deleteWord, the read   *)
(* only queries) and FSRSService (the memory-state update).                *)
(*                                                                         *)
(* Units.  Time is counted in steps of 10 minutes (Date values), difficulty*)
(* in tenths, and stability, retrievability and intervals in thousandths   *)
(* (fixed point for the IEEE doubles of the code; Math.exp and Math.pow    *)
(* are evaluated in that fixed point).  The phonetic and createdAt fields  *)
(* of a word are written once by saveWord and read by no operation that    *)
(* writes the store; they are left out of the word records.                *)
(***************************************************************************)
EXTENDS Integers, Sequences, FiniteSets, TLC

\* ------------------------------------------------------------------ bounds
MaxWordId ==
  2
MaxTicks ==
  1
MaxReviews ==
  2
MaxPracticeWords ==
  2
MaxDays ==
  2
MaxStreakWords ==
  3
MaxDaysBack ==
  3
MaxScore ==
  2

\* --------------------------------------------------------------- constants
\* Units per minute-based quantity: one time step is 10 minutes.
MinutesPerStep ==
  10
\* One day (1000 * 60 * 60 * 24 ms) in time steps.
DaySteps ==
  144
\* The cooldown threshold in minutes.
CooldownMinutes ==
  50
\* Events dispatched by one saveToLocalStorage call.
saveToLocalStorageEvents ==
  1
\* Stability bound of the learning bucket (30 days), in thousandths.
LearningMaxStability ==
  30000
\* FSRSService.INITIAL_STABILITY = 0.4, in thousandths.
INITIAL_STABILITY ==
  400
\* FSRSService.DIFFICULTY_DECAY = -0.5, in thousandths.
DIFFICULTY_DECAY ==
  -500
\* Fixed-point scale of stability, retrievability and intervals.
Scale ==
  1000
\* Instant at which this session's service object is constructed.
StartNow ==
  288

\* JavaScript values that are not numbers or dates.
UNDEFINED ==
  -1
NULL ==
  -2
NaN ==
  -3

AGAIN ==
  1
HARD ==
  2
GOOD ==
  3
EASY ==
  4
ReviewResult ==
  {AGAIN, HARD, GOOD, EASY}

WordIds ==
  1 .. MaxWordId
Texts ==
  {"Cat", "dog"}
TickSteps ==
  {1, 5}

VARIABLES
  words,          \* this.words: sequence of SavedWord
  meanings,       \* this.meanings
  examples,       \* this.examples
  nextWordId,
  nextMeaningId,
  nextExampleId,
  now,            \* the wall clock read by new Date()
  ticks,          \* number of clock advances so far (bounds the run)
  pending,        \* number of recordReview calls suspended at their await
  called,         \* the recordReview call made by the last step, if any:
                  \* its wordId and the path it took
  events,         \* 'datachanged' events dispatched by the last operation
  reviews,        \* number of accepted reviews so far (bounds the run)
  serial,         \* per word id: memory state if the calls ran one at a time
  returned,       \* the last query call with its return value, written in
                  \* the specifications of the queries only
  reviewedDays,   \* calendar days on which a review was accepted (history)
  ui              \* state of the mounted quiz or game component, written in
                  \* the specification of the quiz and the games only

vars ==
  <<words, meanings, examples, nextWordId, nextMeaningId, nextExampleId,
    now, ticks, pending, called, events, reviews, serial, returned,
    reviewedDays, ui>>

\* ------------------------------------------------------------ arithmetic
Max(a, b) ==
  IF a >= b THEN a ELSE b
Min(a, b) ==
  IF a <= b THEN a ELSE b

\* exp(-n) for whole n, in thousandths.
ExpNegWhole(n) ==
  CASE n = 0 -> 1000
    [] n = 1 -> 368
    [] n = 2 -> 135
    [] n = 3 -> 50
    [] n = 4 -> 18
    [] n = 5 -> 7
    [] n = 6 -> 2
    [] OTHER -> 0

\* exp(-f/1000) for 0 <= f < 1000, in thousandths (series to the 5th term).
ExpNegFrac(f) ==
  LET t2 == (f * f) \div 2000
      t3 == (t2 * f) \div 3000
      t4 == (t3 * f) \div 4000
      t5 == (t4 * f) \div 5000
  IN  1000 - f + t2 - t3 + t4 - t5

\* Math.exp(-x/1000) in thousandths, for x >= 0.
ExpNeg(x) ==
  (ExpNegWhole(x \div 1000) * ExpNegFrac(x % 1000)) \div 1000

\* Math.pow(0.9, elapsed / stability): elapsed in time steps, stability in
\* thousandths of a day; 0.9^e = exp(-e * 0.105361).  With stability 0 and
\* elapsed > 0 the quotient is +Infinity and the power is 0.
Pow09(elapsed, stability) ==
  IF stability = 0
  THEN (IF elapsed > 0 THEN 0 ELSE NaN)
  ELSE ExpNeg((elapsed * 105361) \div (DaySteps * stability))

\* Math.round of a value in thousandths.
Round(x) ==
  (x + 500) \div 1000

\* ------------------------------------------------------------ FSRSService
NoParams ==
  [kind |-> "none", difficulty |-> 0, stability |-> 0, retrievability |-> 0,
   last_review |-> NULL, next_review |-> 0, review_count |-> UNDEFINED]

MalformedParams ==
  [NoParams EXCEPT !.kind = "malformed"]

\* Variant: the initial stability is 0, as in the object saveWord builds.
initializeParams_ZeroStability(t) ==
  [kind |-> "json", difficulty |-> 0, stability |-> 0,
   retrievability |-> Scale, last_review |-> NULL,
   next_review |-> t + DaySteps, review_count |-> 0]

initializeParams(t) ==
  [kind |-> "json", difficulty |-> 0, stability |-> INITIAL_STABILITY,
   retrievability |-> Scale, last_review |-> NULL,
   next_review |-> t + DaySteps, review_count |-> 0]

\* Variant: the change drifts with the number of reviews written so far.
getDifficultyChange_Drifting(result) ==
  reviews + (CASE result = AGAIN -> 12
               [] result = HARD -> 3
               [] result = GOOD -> -1
               [] result = EASY -> -3
               [] OTHER -> 0)

getDifficultyChange(result) ==
  CASE result = AGAIN -> 12
    [] result = HARD -> 3
    [] result = GOOD -> -1
    [] result = EASY -> -3
    [] OTHER -> 0

getStabilityIncrease(result, difficulty, retrievability) ==
  LET base == Scale - retrievability
      difficultyFactor == ExpNeg((-DIFFICULTY_DECAY * difficulty) \div 10)
  IN  CASE result = HARD -> (base * 5 * difficultyFactor) \div (10 * Scale)
        [] result = GOOD -> (base * 10 * difficultyFactor) \div (10 * Scale)
        [] result = EASY -> (base * 15 * difficultyFactor) \div (10 * Scale)
        [] OTHER -> 0

\* Variant: the interval of a non-Again review has no minimum of one day.
calculateInterval_NoMinimum(stability, difficulty, result) ==
  IF result = AGAIN
  THEN 250
  ELSE LET baseInterval == stability
           difficultyMultiplier == ExpNeg((100 * difficulty) \div 10)
       IN  (baseInterval * difficultyMultiplier) \div Scale

calculateInterval(stability, difficulty, result) ==
  IF result = AGAIN
  THEN 250
  ELSE LET baseInterval == stability
           difficultyMultiplier == ExpNeg((100 * difficulty) \div 10)
       IN  Max(Scale, (baseInterval * difficultyMultiplier) \div Scale)

\* review_count + 1 on a JavaScript value.
PlusOne(c) ==
  IF c = UNDEFINED \/ c = NaN THEN NaN
  ELSE IF c = NULL THEN 1
  ELSE c + 1

\* Variant: the upper clamp is missing.
ClampDifficulty_NoUpper(d) ==
  Max(0, d)

\* Math.max(0, Math.min(10, d)) on tenths.
ClampDifficulty(d) ==
  Max(0, Min(100, d))

\* Variant: the stability after Again has no lower bound.
calculateNextReview_NoFloor(params, result, t) ==
  LET difficulty ==
        ClampDifficulty(params.difficulty + getDifficultyChange(result))
      retrievability ==
        IF params.last_review # NULL
        THEN Pow09(t - params.last_review, params.stability)
        ELSE params.retrievability
      stability ==
        IF result = AGAIN
        THEN params.stability \div 5
        ELSE params.stability
             + (params.stability
                * getStabilityIncrease(result, difficulty, retrievability))
               \div Scale
      interval == calculateInterval(stability, difficulty, result)
  IN  [kind |-> "json", difficulty |-> difficulty, stability |-> stability,
       retrievability |-> retrievability, last_review |-> t,
       next_review |-> t + Round(interval) * DaySteps,
       review_count |-> PlusOne(params.review_count)]

calculateNextReview(params, result, t) ==
  LET difficulty ==
        ClampDifficulty(params.difficulty + getDifficultyChange(result))
      retrievability ==
        IF params.last_review # NULL
        THEN Pow09(t - params.last_review, params.stability)
        ELSE params.retrievability
      stability ==
        IF result = AGAIN
        THEN Max(100, params.stability \div 5)
        ELSE params.stability
             + (params.stability
                * getStabilityIncrease(result, difficulty, retrievability))
               \div Scale
      interval == calculateInterval(stability, difficulty, result)
  IN  [kind |-> "json", difficulty |-> difficulty, stability |-> stability,
       retrievability |-> retrievability, last_review |-> t,
       next_review |-> t + Round(interval) * DaySteps,
       review_count |-> PlusOne(params.review_count)]

\* JSON.stringify followed by JSON.parse of a params object: NaN becomes
\* null, an undefined property is dropped; numbers and ISO dates survive.
JsonRoundTrip(params) ==
  [params EXCEPT
     !.review_count = IF @ = NaN THEN NULL ELSE @,
     !.retrievability = IF @ = NaN THEN NULL ELSE @]

\* ---------------------------------------------------- LocalDatabaseService
Indexes(s) ==
  1 .. Len(s)

Ids(ws) ==
  {ws[i].id : i \in Indexes(ws)}

\* Variant: find without a match falls back to the first word.
FindIndex_First(ws, wordId) ==
  IF \E i \in Indexes(ws) : ws[i].id = wordId
  THEN CHOOSE i \in Indexes(ws) : ws[i].id = wordId
  ELSE IF ws = <<>> THEN 0 ELSE 1

\* this.words.find(w => w.id === wordId): index of the first match, 0 if none.
FindIndex(ws, wordId) ==
  IF \E i \in Indexes(ws) : ws[i].id = wordId
  THEN CHOOSE i \in Indexes(ws) :
         ws[i].id = wordId /\ \A j \in 1 .. (i - 1) : ws[j].id # wordId
  ELSE 0

\* The stored fsrs_params of a word id (NoParams if the id is not stored).
ParamsIn(ws, wordId) ==
  IF FindIndex(ws, wordId) = 0 THEN NoParams
  ELSE ws[FindIndex(ws, wordId)].fsrs_params

toLowerCase(text) ==
  IF text = "Cat" THEN "cat" ELSE text

\* The params saveWord stores for a new word (no review_count property).
NewWordParams(t) ==
  [kind |-> "json", difficulty |-> 0, stability |-> 0,
   retrievability |-> Scale, last_review |-> NULL, next_review |-> t,
   review_count |-> UNDEFINED]

\* Variant: the write goes to a copy of the word and is lost.
updateFSRSParams_Lost(ws, wordId, params) ==
  ws

\* Variant: the write goes to every stored word.
updateFSRSParams_AllWords(ws, wordId, params) ==
  IF FindIndex(ws, wordId) = 0 THEN ws
  ELSE [i \in Indexes(ws) |->
          [ws[i] EXCEPT !.fsrs_params = JsonRoundTrip(params)]]

\* updateFSRSParams: the words array after the write.
updateFSRSParams(ws, wordId, params) ==
  LET i == FindIndex(ws, wordId)
  IN  IF i = 0 THEN ws
      ELSE [ws EXCEPT ![i].fsrs_params = JsonRoundTrip(params)]

\* Variant: updateFSRSParams dispatches the event itself as well.
updateFSRSParamsEvents_Twice(ws, wordId) ==
  IF FindIndex(ws, wordId) = 0 THEN 0 ELSE saveToLocalStorageEvents + 1

\* updateFSRSParams: the number of 'datachanged' events it dispatches.
updateFSRSParamsEvents(ws, wordId) ==
  IF FindIndex(ws, wordId) = 0 THEN 0 ELSE saveToLocalStorageEvents

\* Variant: the elapsed time is taken in seconds.
InCooldown_InSeconds(minutesSinceLastReview) ==
  minutesSinceLastReview * 60 < CooldownMinutes

\* Variant: the comparison is <=.
InCooldown_Inclusive(minutesSinceLastReview) ==
  minutesSinceLastReview <= CooldownMinutes

\* if (minutesSinceLastReview < 50)
InCooldown(minutesSinceLastReview) ==
  minutesSinceLastReview < CooldownMinutes

\* currentParams of recordReview for a stored value that parses.
CurrentParams(stored, t) ==
  IF stored.kind = "none" THEN initializeParams(t) ELSE stored

\* Variant: no cooldown check.
RecordReviewPath_NoCooldown(stored, t) ==
  IF stored.kind = "malformed" THEN "threw" ELSE "accepted"

\* The path recordReview takes on a stored word: JSON.parse throws on a
\* malformed text (caught and rethrown), the cooldown returns early,
\* otherwise the update is computed and written.
RecordReviewPath(stored, t) ==
  IF stored.kind = "malformed" THEN "threw"
  ELSE IF CurrentParams(stored, t).last_review # NULL
          /\ InCooldown((t - CurrentParams(stored, t).last_review)
                        * MinutesPerStep)
       THEN "cooldown"
       ELSE "accepted"

\* ---------------------------------------------------------------- queries
IdsOf(ws) ==
  [i \in Indexes(ws) |-> ws[i].id]

\* getWordsForReview's filter.
IsForReview(word) ==
  \/ word.fsrs_params.kind \in {"none", "malformed"}
  \/ word.fsrs_params.next_review <= now

\* date.toDateString(): the calendar day of an instant.
DayOf(t) ==
  t \div DaySteps

HasLastReview(word) ==
  word.fsrs_params.kind = "json" /\ word.fsrs_params.last_review # NULL

ReviewDays ==
  {DayOf(words[i].fsrs_params.last_review) :
     i \in {j \in Indexes(words) : HasLastReview(words[j])}}

\* uniqueDates.sort((a, b) => b - a)
RECURSIVE SortDesc(_)
SortDesc(S) ==
  IF S = {} THEN <<>>
  ELSE LET m == CHOOSE x \in S : \A y \in S : y <= x
       IN  <<m>> \o SortDesc(S \ {m})

\* The loop of calculateStreakDays over uniqueDates from index i (1-based).
RECURSIVE StreakLoop(_, _, _, _)
StreakLoop(uniqueDates, i, currentDay, streak) ==
  IF i > Len(uniqueDates) THEN streak
  ELSE IF uniqueDates[i] = currentDay - 1
       THEN StreakLoop(uniqueDates, i + 1, uniqueDates[i], streak + 1)
       ELSE streak

\* Variant: the test that the last review was today or yesterday is missing.
calculateStreakDays_NoRecencyTest ==
  IF ReviewDays = {} THEN 0
  ELSE LET uniqueDates == SortDesc(ReviewDays)
           mostRecent == uniqueDates[1]
       IN  StreakLoop(uniqueDates, 2, mostRecent, 1)

calculateStreakDays ==
  IF ReviewDays = {} THEN 0
  ELSE LET uniqueDates == SortDesc(ReviewDays)
           mostRecent == uniqueDates[1]
       IN  IF mostRecent # DayOf(now) /\ mostRecent # DayOf(now) - 1 THEN 0
           ELSE StreakLoop(uniqueDates, 2, mostRecent, 1)

\* Variant: the due test comes before the stability === 0 test.
Bucket_DueFirst(word) ==
  LET params == word.fsrs_params
  IN  IF params.kind = "none" THEN "fresh"
      ELSE IF params.kind = "malformed" THEN "mastered"
      ELSE IF params.next_review <= now THEN "due"
      ELSE IF params.stability = 0 THEN "fresh"
      ELSE IF params.stability > 0 /\ params.stability <= LearningMaxStability
           THEN "learning"
      ELSE "mastered"

\* The bucket getWordsForPractice puts a word in.
Bucket(word) ==
  LET params == word.fsrs_params
  IN  IF params.kind = "none" THEN "fresh"
      ELSE IF params.kind = "malformed" THEN "mastered"
      ELSE IF params.stability = 0 THEN "fresh"
      ELSE IF params.next_review <= now THEN "due"
      ELSE IF params.stability > 0 /\ params.stability <= LearningMaxStability
           THEN "learning"
      ELSE "mastered"

BucketWeight(bucket) ==
  CASE bucket = "due" -> 4
    [] bucket = "learning" -> 3
    [] bucket = "fresh" -> 2
    [] OTHER -> 1

InBucket(ws, bucket) ==
  SelectSeq(ws, LAMBDA w : Bucket(w) = bucket)

\* Variant: every word is pushed once, whatever its bucket.
Repeated_Once(ws, n) ==
  ws

\* forEach(word => { for (i < n) weightedPool.push(word) })
RECURSIVE Repeated(_, _)
Repeated(ws, n) ==
  IF ws = <<>> THEN <<>>
  ELSE [i \in 1 .. n |-> Head(ws)] \o Repeated(Tail(ws), n)

\* Variant: mastered words are left out of the pool.
weightedPool_NoMastered ==
  Repeated(InBucket(words, "due"), 4)
  \o Repeated(InBucket(words, "learning"), 3)
  \o Repeated(InBucket(words, "fresh"), 2)

weightedPool ==
  Repeated(InBucket(words, "due"), 4)
  \o Repeated(InBucket(words, "learning"), 3)
  \o Repeated(InBucket(words, "fresh"), 2)
  \o Repeated(InBucket(words, "mastered"), 1)

\* The orders in which the distinct ids of the pool can first occur in the
\* shuffled pool (sort with a random comparator yields some permutation).
FirstOccurrenceOrders ==
  LET ids == Ids(weightedPool)
      n == Cardinality(ids)
  IN  {o \in [1 .. n -> ids] : \A i, j \in 1 .. n : i # j => o[i] # o[j]}

\* The selection loop: push, then break once length >= limit.
RECURSIVE SelectionLoop(_, _, _, _)
SelectionLoop(order, i, limit, finalSelection) ==
  IF i > Len(order) THEN finalSelection
  ELSE LET pushed == Append(finalSelection, order[i])
       IN  IF Len(pushed) >= limit THEN pushed
           ELSE SelectionLoop(order, i + 1, limit, pushed)

PracticeLimits ==
  {0, 1, 2, 20}


\* The results of the read-only queries in the current state.
getAllWords ==
  IdsOf(words)

getWordsForReview ==
  IdsOf(SelectSeq(words, IsForReview))

\* The sequences getWordsForPractice(limit) can return, one per shuffle.
getWordsForPractice(limit) ==
  IF Len(words) = 0 THEN {<<>>}
  ELSE {SelectionLoop(order, 1, limit, <<>>) : order \in FirstOccurrenceOrders}

\* ------------------------------------------------------------------- Init
\* n accepted reviews with the same result, 50 minutes apart, from time t.
RECURSIVE ReviewedTimes(_, _, _, _)
ReviewedTimes(params, result, t, n) ==
  IF n = 0 THEN params
  ELSE ReviewedTimes(JsonRoundTrip(calculateNextReview(params, result, t)),
                     result, t + 5, n - 1)

\* A word an earlier session saved a day before and reviewed 8 times Again.
HardWordParams ==
  ReviewedTimes(NewWordParams(StartNow - DaySteps), AGAIN,
                StartNow - DaySteps, 8)

StoredWord(params) ==
  [id |-> 1, text |-> "cat", fsrs_params |-> params]

\* What localStorage holds when the service is constructed: one word (with a
\* meaning and an example) stored without fsrs_params, with an fsrs_params
\* text that does not parse, or with an earlier session's reviews.  (The
\* empty store is reached by deleting that word.)
InitialStores ==
  { <<StoredWord(NoParams)>>, <<StoredWord(MalformedParams)>>,
    <<StoredWord(HardWordParams)>> }

\* No query call has returned.
NoResult ==
  [op |-> "none", arg |-> 0, value |-> <<>>]

\* No answer handled by the last step.
NoAnswer ==
  [game |-> "none", word |-> 0, correct |-> FALSE]

\* No quiz or game component is mounted.
NoUi ==
  [screen |-> "none", questions |-> <<>>, currentQuestionIndex |-> 0,
   showResult |-> FALSE, isCorrect |-> FALSE, score |-> 0,
   quizCompleted |-> FALSE, completed |-> <<>>, correct |-> 0,
   gameWords |-> {}, activeWord |-> 0, matchedIds |-> {},
   answer |-> NoAnswer, result |-> 0]

\* No recordReview call was made by the step.
NoCall ==
  [word |-> 0, path |-> "none"]

\* loadFromLocalStorage
Init ==
  /\ words \in InitialStores
  /\ meanings = [i \in Indexes(words) |-> [id |-> i, word_id |-> words[i].id]]
  /\ examples = [i \in Indexes(words) |-> [id |-> i, meaning_id |-> i]]
  /\ nextWordId = Len(words) + 1
  /\ nextMeaningId = Len(words) + 1
  /\ nextExampleId = Len(words) + 1
  /\ now = StartNow
  /\ ticks = 0
  /\ pending = 0
  /\ called = NoCall
  /\ events = 0
  /\ reviews = 0
  /\ serial = [w \in WordIds |-> ParamsIn(words, w)]
  /\ returned = NoResult
  /\ reviewedDays = {}
  /\ ui = NoUi

\* ---------------------------------------------------------------- actions
\* Time passes by 10 or 50 minutes.  A suspended recordReview is resumed by
\* the microtask queue of the same turn of the event loop, before any timer
\* or input event runs, so the clock does not step while a call is suspended.
Tick(d) ==
  /\ ticks < MaxTicks
  /\ pending = 0
  /\ now' = now + d
  /\ ticks' = ticks + 1
  /\ called' = NoCall
  /\ events' = 0
  /\ UNCHANGED <<words, meanings, examples, nextWordId, nextMeaningId,
                 nextExampleId, pending, reviews, serial, returned,
                 reviewedDays, ui>>

saveWord(word) ==
  /\ IF \E i \in Indexes(words) : toLowerCase(words[i].text) = toLowerCase(word)
     THEN /\ events' = 0
          /\ UNCHANGED <<words, nextWordId, serial>>
     ELSE /\ nextWordId <= MaxWordId
          /\ words' = Append(words,
                        [id |-> nextWordId, text |-> word,
                         fsrs_params |-> NewWordParams(now)])
          /\ serial' = [serial EXCEPT ![nextWordId] = NewWordParams(now)]
          /\ nextWordId' = nextWordId + 1
          /\ events' = saveToLocalStorageEvents
  /\ called' = NoCall
  /\ UNCHANGED <<meanings, examples, nextMeaningId, nextExampleId, now, ticks,
                 pending, reviews, returned,
                 reviewedDays, ui>>

\* recordReview up to its only suspension point, the await of the promise of
\* updateFSRSParams; that call has already run to its end (it contains no
\* await), so the write and the event are part of this step.  The not-found,
\* cooldown and throwing paths end the call without suspending.
recordReviewStep(wordId, result) ==
  /\ IF FindIndex(words, wordId) = 0
     THEN /\ called' = [word |-> wordId, path |-> "notfound"]
          /\ events' = 0
          /\ UNCHANGED <<words, pending, reviews, serial, reviewedDays>>
     ELSE LET stored == ParamsIn(words, wordId)
              path == RecordReviewPath(stored, now)
          IN  IF path = "accepted"
              THEN /\ reviews < MaxReviews
                   /\ words' = updateFSRSParams(words, wordId,
                        calculateNextReview(CurrentParams(stored, now),
                                            result, now))
                   /\ pending' = pending + 1
                   /\ reviews' = reviews + 1
                   /\ serial' = [serial EXCEPT ![wordId] =
                        IF RecordReviewPath(@, now) = "accepted"
                        THEN JsonRoundTrip(calculateNextReview(
                               CurrentParams(@, now), result, now))
                        ELSE @]
                   /\ called' = [word |-> wordId, path |-> "accepted"]
                   /\ events' = updateFSRSParamsEvents(words, wordId)
                   /\ reviewedDays' = reviewedDays \cup {DayOf(now)}
              ELSE /\ called' = [word |-> wordId, path |-> path]
                   /\ events' = 0
                   /\ UNCHANGED <<words, pending, reviews, serial,
                                  reviewedDays>>
  /\ UNCHANGED <<meanings, examples, nextWordId, nextMeaningId, nextExampleId,
                 now, ticks>>

recordReviewCall(wordId, result) ==
  /\ recordReviewStep(wordId, result)
  /\ UNCHANGED <<returned, ui>>

\* The awaited promise settles and a suspended recordReview returns.
recordReviewResume ==
  /\ pending > 0
  /\ pending' = pending - 1
  /\ called' = NoCall
  /\ events' = 0
  /\ UNCHANGED <<words, meanings, examples, nextWordId, nextMeaningId,
                 nextExampleId, now, ticks, reviews, serial, returned,
                 reviewedDays, ui>>

\* Variant: the meanings and examples of the word are kept.
deleteWord_KeepsMeanings(wordId) ==
  /\ words' = SelectSeq(words, LAMBDA w : w.id # wordId)
  /\ called' = NoCall
  /\ events' = saveToLocalStorageEvents
  /\ serial' = [serial EXCEPT ![wordId] = NoParams]
  /\ UNCHANGED <<meanings, examples, nextWordId, nextMeaningId,
                 nextExampleId, now, ticks, pending, reviews, returned,
                 reviewedDays, ui>>

deleteWord(wordId) ==
  /\ LET meaningIdsToDelete ==
           {meanings[i].id : i \in {j \in Indexes(meanings) :
                                      meanings[j].word_id = wordId}}
     IN  /\ words' = SelectSeq(words, LAMBDA w : w.id # wordId)
         /\ meanings' = SelectSeq(meanings, LAMBDA m : m.word_id # wordId)
         /\ examples' = SelectSeq(examples,
                          LAMBDA e : e.meaning_id \notin meaningIdsToDelete)
  /\ called' = NoCall
  /\ events' = saveToLocalStorageEvents
  /\ serial' = [serial EXCEPT ![wordId] = NoParams]
  /\ UNCHANGED <<nextWordId, nextMeaningId, nextExampleId, now, ticks, pending,
                 reviews, returned,
                 reviewedDays, ui>>

\* A query reads the store and writes nothing.  (What it returns is given
\* by the operators of the queries section; the specifications of the
\* queries record it in returned.)
ReadOnly ==
  /\ called' = NoCall
  /\ events' = 0
  /\ UNCHANGED <<words, meanings, examples, nextWordId, nextMeaningId,
                 nextExampleId, now, ticks, pending, reviews, serial,
                 returned,
                 reviewedDays, ui>>

getAllWordsCall ==
  ReadOnly

getWordsForReviewCall ==
  ReadOnly

calculateStreakDaysCall ==
  ReadOnly

getWeeklyProgressDataCall ==
  ReadOnly

getWordsForPracticeCall(limit) ==
  limit \in PracticeLimits /\ ReadOnly

Next ==
  \/ \E d \in TickSteps : Tick(d)
  \/ \E t \in Texts : saveWord(t)
  \/ \E w \in WordIds, r \in ReviewResult : recordReviewCall(w, r)
  \/ recordReviewResume
  \/ \E w \in WordIds : deleteWord(w)
  \/ getAllWordsCall
  \/ getWordsForReviewCall
  \/ calculateStreakDaysCall
  \/ getWeeklyProgressDataCall
  \/ \E limit \in PracticeLimits : getWordsForPracticeCall(limit)

Spec ==
  Init /\ [][Next]_vars

\* ----------------------------------------------------------------- claims
Stored(w) ==
  w \in Ids(words)

\* review_count as a number of reviews: a missing count is taken as 0.
CountOf(params) ==
  IF params.review_count = UNDEFINED THEN 0 ELSE params.review_count

\* The step is a recordReview call on word w.
ReviewStepOn(w) ==
  called'.word = w

\* The step is an accepted recordReview call on word w.
AcceptedStepOn(w) ==
  called' = [word |-> w, path |-> "accepted"]

\* The step wrote an updated memory state for word w at the current instant.
UpdatedIn(w) ==
  /\ w \in Ids(words')
  /\ ParamsIn(words', w) # ParamsIn(words, w)
  /\ ParamsIn(words', w).kind = "json"
  /\ ParamsIn(words', w).last_review = now

\* C1: every accepted recordReview leaves review_count exactly one greater
\* than before (a missing count of a word just saved counting as 0), and a
\* cooldown-rejected recordReview leaves it unchanged.
C1_ReviewCountIncrements ==
  [][\A w \in WordIds :
       (ReviewStepOn(w) /\ Stored(w)) =>
         IF AcceptedStepOn(w)
         THEN CountOf(ParamsIn(words', w))
              = CountOf(CurrentParams(ParamsIn(words, w), now)) + 1
         ELSE ParamsIn(words', w).review_count
              = ParamsIn(words, w).review_count]_vars

\* C2: a recordReview on a stored word whose last_review is present and less
\* than 50 minutes before now changes no stored data at all.
C2_CooldownIsNoOp ==
  [][\A w \in WordIds :
       (/\ ReviewStepOn(w)
        /\ Stored(w)
        /\ ParamsIn(words, w).kind = "json"
        /\ ParamsIn(words, w).last_review # NULL
        /\ (now - ParamsIn(words, w).last_review) * MinutesPerStep < 50)
       => UNCHANGED <<words, meanings, examples, nextWordId, nextMeaningId,
                      nextExampleId>>]_vars

\* A call 10 minutes after the word's last review has been rejected.
C2_Witness ==
  /\ called.path = "cooldown"
  /\ Stored(called.word)
  /\ ParamsIn(words, called.word).last_review # NULL
  /\ (now - ParamsIn(words, called.word).last_review) * MinutesPerStep = 10

\* C3: a recordReview on a stored word with well-formed state writes the
\* updated state if and only if last_review is absent or at least 50 minutes
\* before now.
C3_AcceptedIffCooldownOver ==
  [][\A w \in WordIds :
       (/\ ReviewStepOn(w)
        /\ Stored(w)
        /\ ParamsIn(words, w).kind \in {"json", "none"})
       => (UpdatedIn(w)
           <=> \/ ParamsIn(words, w).last_review = NULL
               \/ (now - ParamsIn(words, w).last_review) * MinutesPerStep
                  >= 50)]_vars

\* The second review of the session's only word, exactly 50 minutes after
\* the first, has been accepted.
C3_Witness ==
  /\ called.path = "accepted"
  /\ reviews = 2
  /\ nextWordId = 2
  /\ ticks = 1
  /\ now = StartNow + 5
  /\ ParamsIn(words, called.word).last_review = now

\* C4: two reviews that both update the memory state of a word are at least
\* 50 minutes apart.
C4_UpdatesFiftyMinutesApart ==
  [][\A w \in WordIds :
       (/\ words' # words
        /\ Stored(w)
        /\ w \in Ids(words')
        /\ ParamsIn(words', w) # ParamsIn(words, w)
        /\ ParamsIn(words, w).kind = "json"
        /\ ParamsIn(words, w).last_review # NULL)
       => (ParamsIn(words', w).last_review - ParamsIn(words, w).last_review)
          * MinutesPerStep >= 50]_vars

\* A later call inside the window left the first review's state in place.
C4_Witness ==
  /\ called.path = "cooldown"
  /\ reviews = 1
  /\ ParamsIn(words, called.word).last_review = StartNow
  /\ now > StartNow

\* C5: every stored word that has a last_review has stability >= 0.1.
C5_StabilityFloor ==
  \A i \in Indexes(words) :
    HasLastReview(words[i]) => words[i].fsrs_params.stability >= 100

\* C6: an accepted review of a word that has a last_review (the update then
\* divides the elapsed time by the prior stability) finds that stability
\* greater than 0.
C6_NoDivisionByZeroStability ==
  [][\A w \in WordIds :
       (AcceptedStepOn(w) /\ ParamsIn(words, w).last_review # NULL)
       => ParamsIn(words, w).stability > 0]_vars

\* C7: the stored difficulty is always within [0, 10], and each accepted
\* review adds +1.2, +0.3, -0.1 or -0.3 and clamps the sum to [0, 10].
C7_DifficultyBounds ==
  /\ [](\A i \in Indexes(words) :
          words[i].fsrs_params.kind = "json" =>
            /\ words[i].fsrs_params.difficulty >= 0
            /\ words[i].fsrs_params.difficulty <= 100)
  /\ [][\A w \in WordIds :
          AcceptedStepOn(w) =>
            \E delta \in {12, 3, -1, -3} :
              LET sum == CurrentParams(ParamsIn(words, w), now).difficulty
                         + delta
              IN  ParamsIn(words', w).difficulty
                  = (IF sum < 0 THEN 0 ELSE IF sum > 100 THEN 100 ELSE sum)]_vars

\* A review in this session left a word's difficulty clamped at 10.
C7_Witness ==
  /\ called.path = "accepted"
  /\ ParamsIn(words, called.word).difficulty = 100

\* C8: an accepted recordReview dispatches 'datachanged' exactly once; a
\* rejected one or one for an unknown word dispatches it zero times.
C8_OneEventPerAcceptedReview ==
  [][\A w \in WordIds :
       ReviewStepOn(w) =>
         events' = (IF w \in Ids(words') /\ words' # words THEN 1 ELSE 0)]_vars

C8_Witness ==
  /\ called.path = "accepted"
  /\ events = 1

\* C9: with recordReview calls in flight at the same time, the stored state
\* of every word is the state that results from running the calls one after
\* the other in the order of their invocation.
C9_NoLostUpdate ==
  \A w \in WordIds : Stored(w) => ParamsIn(words, w) = serial[w]

\* A second call for a word was made while the first, accepted call for that
\* word was still suspended.
C9_Witness ==
  /\ pending = 1
  /\ reviews = 1
  /\ called.path = "cooldown"
  /\ ParamsIn(words, called.word).last_review = now

\* C10: the stored memory state of a word changes only in an accepted
\* recordReview step for that word.
C10_OnlyAcceptedReviewChangesState ==
  [][\A w \in WordIds :
       (/\ words' # words
        /\ Stored(w)
        /\ w \in Ids(words')
        /\ ParamsIn(words', w) # ParamsIn(words, w))
       => /\ AcceptedStepOn(w)
          /\ reviews' = reviews + 1]_vars

\* A word reviewed in this session is stored unchanged after a later step
\* that was no accepted review of it, another word having been saved.
C10_Witness ==
  \E w \in WordIds :
    /\ Stored(w)
    /\ ParamsIn(words, w).last_review = StartNow
    /\ now > StartNow
    /\ Len(words) = 2
    /\ called # [word |-> w, path |-> "accepted"]

\* The step created the word with id w.
CreatedIn(w) ==
  w \notin Ids(words) /\ w \in Ids(words') /\ nextWordId' = w + 1

\* C11: a word registered by saveWord has the state initializeParams
\* returns: difficulty 0, stability 0.4, retrievability 1, no last_review,
\* next_review one day after the registration, review_count 0.
C11_NewWordHasInitialState ==
  [][\A w \in WordIds :
       CreatedIn(w) =>
         ParamsIn(words', w)
         = [kind |-> "json", difficulty |-> 0, stability |-> 400,
            retrievability |-> 1000, last_review |-> NULL,
            next_review |-> now + DaySteps, review_count |-> 0]]_vars

\* C12: the first recordReview of a stored word without memory state is
\* accepted and stores the update of initializeParams; with Good that is
\* stability 0.4, difficulty 0, retrievability 1, review_count 1,
\* last_review = now and next_review = now + 1 day.
C12_FirstReviewOfWordWithoutState ==
  [][\A w \in WordIds :
       (/\ ReviewStepOn(w)
        /\ Stored(w)
        /\ ParamsIn(words, w).kind = "none")
       => /\ called'.path = "accepted"
          /\ \E r \in ReviewResult :
               ParamsIn(words', w)
               = JsonRoundTrip(calculateNextReview(initializeParams(now),
                                                   r, now))
          /\ recordReviewCall(w, GOOD) =>
               ParamsIn(words', w)
               = [kind |-> "json", difficulty |-> 0, stability |-> 400,
                  retrievability |-> 1000, last_review |-> now,
                  next_review |-> now + DaySteps, review_count |-> 1]]_vars

\* The word stored without memory state has had its first review, which
\* left stability 0.4 and count 1.
C12_Witness ==
  /\ called = [word |-> 1, path |-> "accepted"]
  /\ reviews = 1
  /\ ParamsIn(words, 1).stability = 400
  /\ ParamsIn(words, 1).review_count = 1
  /\ ParamsIn(words, 1).last_review = now
  /\ ParamsIn(words, 1).next_review = now + DaySteps

\* C13: recordReview on a stored word whose memory state does not parse is
\* accepted and stores a valid state for it.
C13_MalformedStateIsReplaced ==
  [][\A w \in WordIds :
       (/\ ReviewStepOn(w)
        /\ Stored(w)
        /\ ParamsIn(words, w).kind = "malformed")
       => /\ called'.path = "accepted"
          /\ ParamsIn(words', w).kind = "json"]_vars

\* C14: recordReview with an id that is not stored takes the not-found
\* path: it does not throw, changes no word, meaning or example, sends no
\* event and does not suspend.
C14_NotFoundChangesNothing ==
  [][\A w \in WordIds :
       (ReviewStepOn(w) /\ ~Stored(w))
       => /\ called'.path = "notfound"
          /\ events' = 0
          /\ UNCHANGED <<words, meanings, examples, nextWordId,
                         nextMeaningId, nextExampleId, pending>>]_vars

\* A call was made for the id of a deleted word while another word is stored.
C14_Witness ==
  /\ called.path = "notfound"
  /\ called.word < nextWordId
  /\ ~Stored(called.word)
  /\ words # <<>>

\* What the promise of recordReview settles with on each path: the three
\* returning paths resolve with undefined, the throwing path rejects.
ReturnValue(path) ==
  IF path = "threw" THEN "Error: Failed to update FSRS parameters."
  ELSE "undefined"

\* C15: the value recordReview returns tells a cooldown-rejected and a
\* not-found call from an accepted one.
C15_ReturnValueTellsOutcome ==
  called.path \in {"cooldown", "notfound"}
    => ReturnValue(called.path) # ReturnValue("accepted")

\* ------------------------------------------------- stores for the queries
\* The stored state after the reviews of rs, a sequence of <<result, time>>
\* pairs that recordReview accepted in that order.
RECURSIVE ReviewedAt(_, _)
ReviewedAt(stored, rs) ==
  IF rs = <<>> THEN stored
  ELSE ReviewedAt(JsonRoundTrip(calculateNextReview(
                    CurrentParams(stored, rs[1][2]), rs[1][1], rs[1][2])),
                  Tail(rs))

\* Eight Easy reviews 100 days apart, the last one at time t.
EasyReviews(t) ==
  [k \in 1 .. 8 |-> <<EASY, t - (8 - k) * 100 * DaySteps>>]

\* Memory states of stored words at StartNow, one per case of the bucket
\* rule: without fsrs_params; just saved; saved and reviewed Good 10 minutes
\* ago; reviewed Again 50 minutes ago; reviewed Good 50 minutes ago;
\* reviewed Easy eight times, the last time yesterday; the same with the last
\* time 60 days ago; an fsrs_params text that does not parse.
PracticeParams ==
  { NoParams,
    NewWordParams(StartNow - 1),
    ReviewedAt(NewWordParams(StartNow - 1), << <<GOOD, StartNow - 1>> >>),
    ReviewedAt(NoParams, << <<AGAIN, StartNow - 5>> >>),
    ReviewedAt(NoParams, << <<GOOD, StartNow - 5>> >>),
    ReviewedAt(NoParams, EasyReviews(StartNow - DaySteps)),
    ReviewedAt(NoParams, EasyReviews(StartNow - 60 * DaySteps)),
    MalformedParams }
\* ------------------------------------ specification of getWordsForPractice
TextOf(i) ==
  <<"cat", "dog", "sun", "sky">>[i]

\* The stores of up to MaxPracticeWords words with those memory states.
PracticeStores ==
  UNION { { [i \in 1 .. n |-> [id |-> i, text |-> TextOf(i),
                               fsrs_params |-> ps[i]]] :
            ps \in [1 .. n -> PracticeParams] } :
          n \in 0 .. MaxPracticeWords }

PracticeInit ==
  /\ words \in PracticeStores
  /\ meanings = [i \in Indexes(words) |-> [id |-> i, word_id |-> words[i].id]]
  /\ examples = [i \in Indexes(words) |-> [id |-> i, meaning_id |-> i]]
  /\ nextWordId = Len(words) + 1
  /\ nextMeaningId = Len(words) + 1
  /\ nextExampleId = Len(words) + 1
  /\ now = StartNow
  /\ ticks = 0
  /\ pending = 0
  /\ called = NoCall
  /\ events = 0
  /\ reviews = 0
  /\ serial = [w \in WordIds |-> ParamsIn(words, w)]
  /\ returned = NoResult
  /\ reviewedDays = {}
  /\ ui = NoUi

\* A call of getWordsForPractice(limit) and the sequence of ids it returns.
getWordsForPracticeReturn(limit) ==
  /\ \E value \in getWordsForPractice(limit) :
       returned' = [op |-> "getWordsForPractice", arg |-> limit,
                    value |-> value]
  /\ UNCHANGED <<words, meanings, examples, nextWordId, nextMeaningId,
                 nextExampleId, now, ticks, pending, called, events, reviews,
                 serial, reviewedDays, ui>>

PracticeNext ==
  \E limit \in PracticeLimits : getWordsForPracticeReturn(limit)

PracticeSpec ==
  PracticeInit /\ [][PracticeNext]_vars

\* The call that returned last was getWordsForPractice.
PracticeReturned ==
  returned.op = "getWordsForPractice"

Range(s) ==
  {s[i] : i \in Indexes(s)}

\* C16: getWordsForPractice(limit) returns no id twice, only ids of stored
\* words, and at most limit of them.
C16_SelectionWithinLimit ==
  PracticeReturned =>
    /\ \A i, j \in Indexes(returned.value) :
         i # j => returned.value[i] # returned.value[j]
    /\ Range(returned.value) \subseteq Ids(words)
    /\ Len(returned.value) <= returned.arg

\* C17: with at most limit words stored, getWordsForPractice(limit) returns
\* every stored word exactly once; with no word stored it returns the empty
\* sequence.
C17_ReturnsAllWhenFewWords ==
  (PracticeReturned /\ Len(words) <= returned.arg) =>
    /\ Range(returned.value) = Ids(words)
    /\ Len(returned.value) = Len(words)
    /\ words = <<>> => returned.value = <<>>

\* Two stored words, one of them mastered, were returned for limit 2.
C17_Witness ==
  /\ PracticeReturned
  /\ returned.arg = 2
  /\ Len(words) = 2
  /\ Len(returned.value) = 2
  /\ \E i \in Indexes(words) : Bucket(words[i]) = "mastered"
  /\ \E i \in Indexes(words) : Bucket(words[i]) = "due"

\* The bucket rule as the claim states it.
BucketRule(word) ==
  LET params == word.fsrs_params
  IN  IF params.kind = "malformed" THEN "mastered"
      ELSE IF params.kind = "none" \/ params.stability = 0 THEN "fresh"
      ELSE IF params.next_review <= now THEN "due"
      ELSE IF 0 < params.stability /\ params.stability <= 30 * Scale
           THEN "learning"
      ELSE "mastered"

Buckets ==
  {"due", "learning", "fresh", "mastered"}

\* C18: every stored word is in exactly one bucket, the one the rule gives:
\* Fresh without memory state or with stability 0, else Due with
\* next_review <= now, else Learning with 0 < stability <= 30, else
\* Mastered; Mastered when the state does not parse.
C18_BucketRule ==
  \A i \in Indexes(words), b \in Buckets :
    Cardinality({j \in Indexes(InBucket(words, b)) :
                   InBucket(words, b)[j].id = words[i].id})
    = (IF b = BucketRule(words[i]) THEN 1 ELSE 0)

\* A word just saved: never reviewed, next_review already passed, Fresh.
C18_Witness ==
  /\ PracticeReturned
  /\ \E i \in Indexes(words) :
       /\ words[i].fsrs_params.kind = "json"
       /\ words[i].fsrs_params.last_review = NULL
       /\ words[i].fsrs_params.next_review <= now
       /\ Bucket(words[i]) = "fresh"

\* Number of times id occurs in the pool.
PoolCount(id) ==
  Cardinality({k \in Indexes(weightedPool) : weightedPool[k].id = id})

\* Number of stored words the rule puts in bucket b.
InRule(b) ==
  Cardinality({i \in Indexes(words) : BucketRule(words[i]) = b})

\* C19: the pool holds each stored word 4 times if Due, 3 times if
\* Learning, 2 times if Fresh and once if Mastered, so its size is
\* 4 |Due| + 3 |Learning| + 2 |Fresh| + |Mastered|, and for limit >= 1 every
\* stored word is in some possible selection.
C19_PoolWeights ==
  words # <<>> =>
    /\ \A i \in Indexes(words) :
         PoolCount(words[i].id)
         = (CASE BucketRule(words[i]) = "due" -> 4
              [] BucketRule(words[i]) = "learning" -> 3
              [] BucketRule(words[i]) = "fresh" -> 2
              [] BucketRule(words[i]) = "mastered" -> 1)
    /\ Len(weightedPool)
       = 4 * InRule("due") + 3 * InRule("learning") + 2 * InRule("fresh")
         + InRule("mastered")
    /\ \A i \in Indexes(words), limit \in PracticeLimits :
         limit >= 1 =>
           \E value \in getWordsForPractice(limit) :
             words[i].id \in Range(value)

\* With a due word stored as well, limit 1 returned the mastered word.
C19_Witness ==
  /\ PracticeReturned
  /\ returned.arg = 1
  /\ Len(returned.value) = 1
  /\ \E i, j \in Indexes(words) :
       /\ Bucket(words[i]) = "mastered"
       /\ Bucket(words[j]) = "due"
       /\ returned.value[1] = words[i].id

\* ------------------------------------ specification of calculateStreakDays
\* Stores of words that have never been reviewed.
StreakStores ==
  { [i \in 1 .. n |-> [id |-> i, text |-> TextOf(i),
                       fsrs_params |-> NoParams]] : n \in 1 .. MaxWordId }

StreakInit ==
  /\ words \in StreakStores
  /\ meanings = [i \in Indexes(words) |-> [id |-> i, word_id |-> words[i].id]]
  /\ examples = [i \in Indexes(words) |-> [id |-> i, meaning_id |-> i]]
  /\ nextWordId = Len(words) + 1
  /\ nextMeaningId = Len(words) + 1
  /\ nextExampleId = Len(words) + 1
  /\ now = StartNow
  /\ ticks = 0
  /\ pending = 0
  /\ called = NoCall
  /\ events = 0
  /\ reviews = 0
  /\ serial = [w \in WordIds |-> ParamsIn(words, w)]
  /\ returned = NoResult
  /\ reviewedDays = {}
  /\ ui = NoUi

\* The next calendar day begins (no call is suspended over midnight).
DayTick ==
  /\ ticks < MaxDays
  /\ pending = 0
  /\ now' = now + DaySteps
  /\ ticks' = ticks + 1
  /\ called' = NoCall
  /\ events' = 0
  /\ UNCHANGED <<words, meanings, examples, nextWordId, nextMeaningId,
                 nextExampleId, pending, reviews, serial, returned,
                 reviewedDays, ui>>

\* A call of calculateStreakDays and the number it returns.
calculateStreakDaysReturn ==
  /\ returned' = [op |-> "calculateStreakDays", arg |-> 0,
                  value |-> calculateStreakDays]
  /\ called' = NoCall
  /\ events' = 0
  /\ UNCHANGED <<words, meanings, examples, nextWordId, nextMeaningId,
                 nextExampleId, now, ticks, pending, reviews, serial,
                 reviewedDays, ui>>

StreakNext ==
  \/ DayTick
  \/ \E w \in WordIds, r \in ReviewResult : recordReviewCall(w, r)
  \/ recordReviewResume
  \/ calculateStreakDaysReturn

StreakSpec ==
  StreakInit /\ [][StreakNext]_vars

\* Number of consecutive days, from day d backwards, with an accepted review.
RECURSIVE ConsecutiveReviewedDays(_)
ConsecutiveReviewedDays(d) ==
  IF d \in reviewedDays THEN 1 + ConsecutiveReviewedDays(d - 1) ELSE 0

\* The streak the claim describes: counted back from today, or from
\* yesterday when today has no accepted review.
ClaimedStreak ==
  IF DayOf(now) \in reviewedDays
  THEN ConsecutiveReviewedDays(DayOf(now))
  ELSE ConsecutiveReviewedDays(DayOf(now) - 1)

\* C20: calculateStreakDays returns the number of consecutive calendar days,
\* back from today (or from yesterday when today has no review), on each of
\* which a review of any word was accepted.
C20_StreakCountsReviewedDays ==
  [][returned' # returned => returned'.value = ClaimedStreak]_vars

\* ---------------- specification of calculateStreakDays on stored last reviews
\* Memory states of stored words at StartNow: without fsrs_params, a text
\* that does not parse, just saved, or last reviewed (Good) k days ago for
\* k up to MaxDaysBack.
StreakParams ==
  {NoParams, MalformedParams, NewWordParams(StartNow - 1)}
  \cup {ReviewedAt(NoParams, << <<GOOD, StartNow - k * DaySteps>> >>) :
          k \in 0 .. MaxDaysBack}

\* The stores of up to MaxStreakWords words with those memory states.
StreakDataStores ==
  UNION { { [i \in 1 .. n |-> [id |-> i, text |-> TextOf(i),
                               fsrs_params |-> ps[i]]] :
            ps \in [1 .. n -> StreakParams] } :
          n \in 0 .. MaxStreakWords }

StreakDataInit ==
  /\ words \in StreakDataStores
  /\ meanings = [i \in Indexes(words) |-> [id |-> i, word_id |-> words[i].id]]
  /\ examples = [i \in Indexes(words) |-> [id |-> i, meaning_id |-> i]]
  /\ nextWordId = Len(words) + 1
  /\ nextMeaningId = Len(words) + 1
  /\ nextExampleId = Len(words) + 1
  /\ now = StartNow
  /\ ticks = 0
  /\ pending = 0
  /\ called = NoCall
  /\ events = 0
  /\ reviews = 0
  /\ serial = [w \in WordIds |-> ParamsIn(words, w)]
  /\ returned = NoResult
  /\ reviewedDays = {}
  /\ ui = NoUi

StreakDataNext ==
  calculateStreakDaysReturn

StreakDataSpec ==
  StreakDataInit /\ [][StreakDataNext]_vars

\* The calendar days of the stored last_review values.
LastReviewDays ==
  {DayOf(words[i].fsrs_params.last_review) :
     i \in {j \in Indexes(words) :
              /\ words[j].fsrs_params.kind = "json"
              /\ words[j].fsrs_params.last_review # NULL}}

\* The length of the run of consecutive days of S that ends at day m.
RunEndingAt(S, m) ==
  CHOOSE k \in 1 .. Cardinality(S) :
    /\ \A j \in 0 .. (k - 1) : (m - j) \in S
    /\ (m - k) \notin S

\* The streak as the claim states it.
ClaimedRun ==
  IF LastReviewDays = {} THEN 0
  ELSE LET m == CHOOSE d \in LastReviewDays :
                  \A e \in LastReviewDays : e <= d
       IN  IF m # DayOf(now) /\ m # DayOf(now) - 1 THEN 0
           ELSE RunEndingAt(LastReviewDays, m)

\* C21: calculateStreakDays returns 0 when no word has a last_review or the
\* most recent last_review day is neither today nor yesterday, and otherwise
\* the length of the run of consecutive last_review days that ends at the
\* most recent one.
C21_StreakOfLastReviewDays ==
  returned.op = "calculateStreakDays" => returned.value = ClaimedRun

\* Last reviews today, yesterday and 3 days ago: the call returned 2.
C21_Witness ==
  /\ returned.op = "calculateStreakDays"
  /\ LastReviewDays = {DayOf(now), DayOf(now) - 1, DayOf(now) - 3}
  /\ returned.value = 2

\* ------------------------------- specification of reviews over days of time
\* Memory states of the stored word at StartNow: those of PracticeParams and
\* the word reviewed 8 times Again.
ReviewParams ==
  PracticeParams \cup {HardWordParams}

ReviewInit ==
  /\ words \in {<<StoredWord(params)>> : params \in ReviewParams}
  /\ meanings = <<[id |-> 1, word_id |-> 1]>>
  /\ examples = <<[id |-> 1, meaning_id |-> 1]>>
  /\ nextWordId = 2
  /\ nextMeaningId = 2
  /\ nextExampleId = 2
  /\ now = StartNow
  /\ ticks = 0
  /\ pending = 0
  /\ called = NoCall
  /\ events = 0
  /\ reviews = 0
  /\ serial = [w \in WordIds |-> ParamsIn(words, w)]
  /\ returned = NoResult
  /\ reviewedDays = {}
  /\ ui = NoUi

\* 6 hours and one day, in time steps.
ReviewTickSteps ==
  {DaySteps \div 4, DaySteps}

\* Time passes between two calls.
ReviewTick(d) ==
  /\ ticks < MaxDays
  /\ pending = 0
  /\ now' = now + d
  /\ ticks' = ticks + 1
  /\ called' = NoCall
  /\ events' = 0
  /\ UNCHANGED <<words, meanings, examples, nextWordId, nextMeaningId,
                 nextExampleId, pending, reviews, serial, returned,
                 reviewedDays, ui>>

\* A call of recordReview; the outcome of the last review that was written
\* is kept for observation.
recordReviewReturn(wordId, result) ==
  /\ recordReviewStep(wordId, result)
  /\ returned' = IF called'.path = "accepted"
                 THEN [op |-> "recordReview", arg |-> result, value |-> <<>>]
                 ELSE returned
  /\ UNCHANGED ui

ReviewNext ==
  \/ \E d \in ReviewTickSteps : ReviewTick(d)
  \/ \E result \in ReviewResult : recordReviewReturn(1, result)
  \/ recordReviewResume

ReviewSpec ==
  ReviewInit /\ [][ReviewNext]_vars

\* The step is an accepted recordReview call on word w with outcome result.
AcceptedStepWith(w, result) ==
  /\ AcceptedStepOn(w)
  /\ returned'.arg = result

\* The memory state a review of word w starts from.
PriorParams(w) ==
  CurrentParams(ParamsIn(words, w), now)

\* C22: an accepted Again review stores the stability max(0.1, 0.2 * S) for
\* the stability S before the review, whatever the difficulty, the
\* retrievability and the elapsed time.
C22_AgainStability ==
  [][\A w \in WordIds :
       AcceptedStepWith(w, AGAIN)
       => ParamsIn(words', w).stability
          = Max(100, (2 * PriorParams(w).stability) \div 10)]_vars

\* An accepted Again review of a word of stability above 0.5 has been stored.
C22_Witness ==
  /\ called = [word |-> 1, path |-> "accepted"]
  /\ returned = [op |-> "recordReview", arg |-> AGAIN, value |-> <<>>]
  /\ ParamsIn(words, 1).stability > 100
  /\ ParamsIn(words, 1).difficulty > 0


\* C23: after an accepted Again review at instant now the stored next_review
\* is now + 0.25 days, so that the word is not due again until 6 hours after
\* the review.
C23_AgainDueAfterSixHours ==
  [][\A w \in WordIds :
       AcceptedStepWith(w, AGAIN)
       => /\ ParamsIn(words', w).next_review = now + DaySteps \div 4
          /\ w \notin Range(getWordsForReview)']_vars

\* C24: after every accepted review the stored next_review is not earlier
\* than the stored last_review, and after an accepted Hard, Good or Easy
\* review it is at least one whole day later, so that getWordsForReview does
\* not return the word before one day has passed.
C24_NextReviewNotBeforeLastReview ==
  \A i \in Indexes(words) :
    LET params == words[i].fsrs_params
    IN  (returned.op = "recordReview" /\ HasLastReview(words[i]))
        => /\ params.next_review >= params.last_review
           /\ returned.arg # AGAIN
              => /\ params.next_review >= params.last_review + DaySteps
                 /\ now < params.last_review + DaySteps
                    => words[i].id \notin Range(getWordsForReview)

\* 6 hours after an accepted Good review the word is not for review.
C24_Witness ==
  /\ returned = [op |-> "recordReview", arg |-> GOOD, value |-> <<>>]
  /\ HasLastReview(words[1])
  /\ now = words[1].fsrs_params.last_review + DaySteps \div 4
  /\ 1 \notin Range(getWordsForReview)


\* -------------------- specification of two words with equal memory states
TwinInit ==
  /\ reviews = 0
  /\ words \in {<<[id |-> 1, text |-> "cat", fsrs_params |-> params],
                  [id |-> 2, text |-> "dog", fsrs_params |-> params]>> :
                params \in ReviewParams}
  /\ meanings = [i \in 1 .. 2 |-> [id |-> i, word_id |-> i]]
  /\ examples = [i \in 1 .. 2 |-> [id |-> i, meaning_id |-> i]]
  /\ nextWordId = 3
  /\ nextMeaningId = 3
  /\ nextExampleId = 3
  /\ now = StartNow
  /\ ticks = 0
  /\ pending = 0
  /\ called = NoCall
  /\ events = 0
  /\ serial = [w \in WordIds |-> ParamsIn(words, w)]
  /\ returned = NoResult
  /\ reviewedDays = {}
  /\ ui = NoUi

TwinNext ==
  \/ DayTick
  \/ \E wordId \in 1 .. 2, result \in ReviewResult :
       recordReviewReturn(wordId, result)
  \/ recordReviewResume

TwinSpec ==
  TwinInit /\ [][TwinNext]_vars

\* Word v got the only review written so far, at this instant, and the step
\* is an accepted review of the untouched word w with the same outcome: two
\* executions of the update from equal (state, outcome, now).
SameUpdateAgain(w, v) ==
  /\ AcceptedStepOn(w)
  /\ v # w
  /\ reviews = 1
  /\ returned.op = "recordReview"
  /\ ParamsIn(words, v).kind = "json"
  /\ ParamsIn(words, v).last_review = now
  /\ returned'.arg = returned.arg

Deleted(id) ==
  id < nextWordId /\ ~Stored(id)

\* The step removes word id from the store.
DeletedIn(id) ==
  Stored(id) /\ id \notin Ids(words')

\* The ids of the meanings that belong to word id.
MeaningIdsOf(id) ==
  {meanings[i].id : i \in {j \in Indexes(meanings) :
                             meanings[j].word_id = id}}

\* Memory states of stored words at StartNow: without fsrs_params, just
\* saved, reviewed Good 50 minutes ago.
DeleteParams ==
  {NoParams, NewWordParams(StartNow - 1),
   ReviewedAt(NoParams, << <<GOOD, StartNow - 5>> >>)}

\* The stores of 1 .. MaxWordId words, each with one meaning and one example.
DeleteStores ==
  UNION { { [i \in 1 .. n |-> [id |-> i, text |-> TextOf(i),
                               fsrs_params |-> ps[i]]] :
            ps \in [1 .. n -> DeleteParams] } :
          n \in 1 .. MaxWordId }

DeleteInit ==
  /\ words \in DeleteStores
  /\ meanings = [i \in Indexes(words) |-> [id |-> i, word_id |-> words[i].id]]
  /\ examples = [i \in Indexes(words) |-> [id |-> i, meaning_id |-> i]]
  /\ nextWordId = Len(words) + 1
  /\ nextMeaningId = Len(words) + 1
  /\ nextExampleId = Len(words) + 1
  /\ now = StartNow
  /\ ticks = 0
  /\ pending = 0
  /\ called = NoCall
  /\ events = 0
  /\ reviews = 0
  /\ serial = [w \in WordIds |-> ParamsIn(words, w)]
  /\ returned = NoResult
  /\ reviewedDays = {}
  /\ ui = NoUi

DeleteNext ==
  \/ \E word \in Texts : saveWord(word)
  \/ \E wordId \in WordIds : deleteWord(wordId)
  \/ \E wordId \in WordIds, result \in ReviewResult :
       recordReviewCall(wordId, result)
  \/ recordReviewResume

DeleteSpec ==
  DeleteInit /\ [][DeleteNext]_vars

\* No query returns word id.
GoneFromQueries(id) ==
  /\ id \notin Range(getAllWords)
  /\ id \notin Range(getWordsForReview)
  /\ \A limit \in PracticeLimits :
       \A result \in getWordsForPractice(limit) : id \notin Range(result)

KnowledgeMapStatus(word) ==
  IF word.fsrs_params.kind # "json" THEN "new"
  ELSE IF word.fsrs_params.stability > 30 * Scale THEN "mastered"
  ELSE IF word.fsrs_params.stability > 0 THEN "learning"
  ELSE "new"

\* The filter of the dashboard's calculateNewWords.
IsNewWord(word) ==
  IF word.fsrs_params.kind # "json" THEN TRUE
  ELSE word.fsrs_params.stability = 0

\* C27: a word whose memory state is absent or readable is classified as New
\* (Knowledge Map status new, dashboard category New, practice bucket fresh)
\* if and only if it has never had an accepted review.
C27_NewIffNeverReviewed ==
  \A i \in Indexes(words) :
    words[i].fsrs_params.kind # "malformed"
    => /\ KnowledgeMapStatus(words[i]) = "new" <=> ~HasLastReview(words[i])
       /\ IsNewWord(words[i]) <=> ~HasLastReview(words[i])
       /\ Bucket(words[i]) = "fresh" <=> ~HasLastReview(words[i])


\* ------------------------------------ specification of the quiz and games
\* Memory states of stored words at StartNow: without fsrs_params, and
\* reviewed Good 10 minutes ago (in the cooldown).
PlayParams ==
  {NoParams, ReviewedAt(NoParams, << <<GOOD, StartNow - 1>> >>)}

\* The stores of 1 .. MaxWordId words, each with one meaning and one example
\* sentence (which contains the word).
PlayStores ==
  UNION { { [i \in 1 .. n |-> [id |-> i, text |-> TextOf(i),
                               fsrs_params |-> ps[i]]] :
            ps \in [1 .. n -> PlayParams] } :
          n \in 1 .. MaxWordId }

\* getWordWithMeanings(id).meanings[0].examples[0] exists.
HasExample(id) ==
  \E i \in Indexes(meanings) :
    /\ meanings[i].word_id = id
    /\ \A j \in 1 .. (i - 1) : meanings[j].word_id # id
    /\ \E k \in Indexes(examples) : examples[k].meaning_id = meanings[i].id

HasMeaning(id) ==
  \E i \in Indexes(meanings) : meanings[i].word_id = id

\* The question lists generateQuiz can build: one question per word of
\* getWordsForPractice(5) that has an example, in the order returned.
QuizQuestions ==
  {SelectSeq(selectedWords, HasExample) :
     selectedWords \in getWordsForPractice(5)}

\* The words loadGameWords can load: those of getWordsForPractice(20) that
\* have a meaning.
GameWords ==
  {{id \in Range(selected) : HasMeaning(id)} :
     selected \in getWordsForPractice(20)}

Screens ==
  {"quiz", "wordMatch", "speedTranslation", "wordScramble"}

\* The component state after mounting and the first generateQuiz or
\* loadGameWords (and startGame of a game).
PlayInit ==
  /\ words \in PlayStores
  /\ meanings = [i \in Indexes(words) |-> [id |-> i, word_id |-> words[i].id]]
  /\ examples = [i \in Indexes(words) |-> [id |-> i, meaning_id |-> i]]
  /\ nextWordId = Len(words) + 1
  /\ nextMeaningId = Len(words) + 1
  /\ nextExampleId = Len(words) + 1
  /\ now = StartNow
  /\ ticks = 0
  /\ pending = 0
  /\ called = NoCall
  /\ events = 0
  /\ reviews = 0
  /\ serial = [w \in WordIds |-> ParamsIn(words, w)]
  /\ returned = NoResult
  /\ reviewedDays = {}
  /\ \E screen \in Screens :
       IF screen = "quiz"
       THEN \E quizQuestions \in QuizQuestions :
              ui = [NoUi EXCEPT !.screen = screen,
                                !.questions = quizQuestions]
       ELSE \E gameWords \in GameWords :
              ui = [NoUi EXCEPT !.screen = screen, !.gameWords = gameWords]

\* The values of currentQuestionIndex and showResult that handleDataChange
\* reads: those of the render in which the effect ran, and the effect (with
\* the dependency list []) runs after the first render only.
ListenerCurrentQuestionIndex ==
  0
ListenerShowResult ==
  FALSE

\* handleDataChange's test.
handleDataChangeRegenerates ==
  ListenerCurrentQuestionIndex = 0 /\ ~ListenerShowResult

\* The state updates at the end of generateQuiz for the list quizQuestions.
generateQuiz(state, quizQuestions) ==
  [state EXCEPT !.questions = quizQuestions,
                !.currentQuestionIndex = 0,
                !.score = 0,
                !.quizCompleted = FALSE]

\* The result passed for an answer.
ResultOf(correct) ==
  IF correct THEN GOOD ELSE HARD

\* QuizGenerator.handleSubmitAnswer with the answer being correct or not,
\* up to the suspension of recordReview, together with what the
\* 'datachanged' event dispatched inside that call starts: handleDataChange
\* and the generateQuiz it calls, whose awaits are on resolved promises
\* and which ends before the next user event.
handleSubmitAnswer(correct) ==
  /\ ui.screen = "quiz"
  /\ ~ui.showResult
  /\ ~ui.quizCompleted
  /\ ui.currentQuestionIndex + 1 <= Len(ui.questions)
  /\ LET currentQuestion == ui.questions[ui.currentQuestionIndex + 1]
         answered ==
           [ui EXCEPT !.isCorrect = correct,
                      !.showResult = TRUE,
                      !.score = IF correct THEN @ + 1 ELSE @,
                      !.correct = IF correct THEN @ + 1 ELSE @,
                      !.answer = [game |-> "quiz", word |-> currentQuestion,
                                  correct |-> correct],
                      !.result = ResultOf(correct)]
     IN  /\ recordReviewStep(currentQuestion, ResultOf(correct))
         /\ IF events' > 0 /\ handleDataChangeRegenerates
            THEN \E quizQuestions \in QuizQuestions' :
                   ui' = generateQuiz(answered, quizQuestions)
            ELSE ui' = answered
  /\ UNCHANGED returned

\* A handler of a component that calls nothing of the database service.
NoServiceCall ==
  /\ called' = NoCall
  /\ events' = 0
  /\ UNCHANGED <<words, meanings, examples, nextWordId, nextMeaningId,
                 nextExampleId, now, ticks, pending, reviews, serial,
                 returned, reviewedDays>>

\* QuizGenerator.handleNextQuestion; completed holds the arguments of
\* onQuizComplete.
handleNextQuestion ==
  /\ ui.screen = "quiz"
  /\ ui.showResult
  /\ ~ui.quizCompleted
  /\ ui.questions # <<>>
  /\ IF ui.currentQuestionIndex < Len(ui.questions) - 1
     THEN ui' = [ui EXCEPT !.currentQuestionIndex = @ + 1,
                           !.showResult = FALSE,
                           !.answer = NoAnswer, !.result = 0]
     ELSE ui' = [ui EXCEPT !.quizCompleted = TRUE,
                           !.completed =
                             <<ui.score + (IF ui.isCorrect THEN 1 ELSE 0),
                               Len(ui.questions)>>,
                           !.answer = NoAnswer, !.result = 0]
  /\ NoServiceCall

\* QuizGenerator.resetQuiz.
resetQuiz ==
  /\ ui.screen = "quiz"
  /\ ui.quizCompleted
  /\ \E quizQuestions \in QuizQuestions :
       ui' = [generateQuiz(ui, quizQuestions) EXCEPT
                !.showResult = FALSE, !.completed = <<>>, !.correct = 0,
                !.answer = NoAnswer, !.result = 0]
  /\ NoServiceCall

\* WordMatchGame.handleWordClick.
handleWordClick(word) ==
  /\ ui.screen = "wordMatch"
  /\ word \in ui.gameWords
  /\ ui' = [ui EXCEPT !.activeWord = IF word \in ui.matchedIds THEN @
                                     ELSE word,
                      !.answer = NoAnswer, !.result = 0]
  /\ NoServiceCall

\* WordMatchGame.handleMeaningClick, up to the suspension of recordReview.
handleMeaningClick(meaningWord) ==
  /\ ui.screen = "wordMatch"
  /\ meaningWord \in ui.gameWords
  /\ IF ui.activeWord = 0 \/ meaningWord \in ui.matchedIds
     THEN /\ ui' = [ui EXCEPT !.answer = NoAnswer, !.result = 0]
          /\ NoServiceCall
     ELSE LET correct == ui.activeWord = meaningWord
          IN  /\ recordReviewStep(ui.activeWord, ResultOf(correct))
              /\ ui' = [ui EXCEPT
                          !.matchedIds = IF correct
                                         THEN @ \cup {ui.activeWord} ELSE @,
                          !.score = IF correct THEN @ + 1 ELSE @,
                          !.activeWord = 0,
                          !.answer = [game |-> "wordMatch",
                                      word |-> ui.activeWord,
                                      correct |-> correct],
                          !.result = ResultOf(correct)]
              /\ UNCHANGED returned

\* SpeedTranslationGame.handleAnswer on the word generateQuestion drew.
handleAnswer(currentWord, correct) ==
  /\ ui.screen = "speedTranslation"
  /\ currentWord \in ui.gameWords
  /\ ui.score < MaxScore
  /\ ui' = [ui EXCEPT !.score = IF correct THEN @ + 1 ELSE @,
                      !.answer = [game |-> "speedTranslation",
                                  word |-> currentWord, correct |-> correct],
                      !.result = 0]
  /\ NoServiceCall

\* WordScrambleGame.checkAnswer on the word generateScramble drew.
checkAnswer(currentWord, correct) ==
  /\ ui.screen = "wordScramble"
  /\ currentWord \in ui.gameWords
  /\ ui.score < MaxScore
  /\ ui' = [ui EXCEPT !.score = IF correct THEN @ + 1 ELSE @,
                      !.answer = [game |-> "wordScramble",
                                  word |-> currentWord, correct |-> correct],
                      !.result = 0]
  /\ NoServiceCall

PlayNext ==
  \/ \E correct \in BOOLEAN : handleSubmitAnswer(correct)
  \/ handleNextQuestion
  \/ resetQuiz
  \/ \E word \in WordIds : handleWordClick(word)
  \/ \E meaningWord \in WordIds : handleMeaningClick(meaningWord)
  \/ \E currentWord \in WordIds, correct \in BOOLEAN :
       handleAnswer(currentWord, correct)
  \/ \E currentWord \in WordIds, correct \in BOOLEAN :
       checkAnswer(currentWord, correct)
  \/ \E d \in TickSteps : Tick(d)
  \/ recordReviewResume

PlaySpec ==
  PlayInit /\ [][PlayNext]_vars

\* C28: in the quiz and in every game (word match, speed translation, word
\* scramble) each answer leads to one recordReview call for the answered
\* word, with Good for a correct and Hard for an incorrect answer.
C28_EveryAnswerIsRecorded ==
  ui.answer.game # "none"
  => /\ called.word = ui.answer.word
     /\ ui.result = (IF ui.answer.correct THEN GOOD ELSE HARD)

\* C29: a 'datachanged' notification that arrives while the quiz is in
\* progress (a question after the first is shown, or a result is shown)
\* leaves the questions, the current question index and the score as they
\* are; only the answer itself adds to the score.
C29_NoRegenerationInProgress ==
  [][(/\ ui.screen = "quiz"
      /\ events' > 0
      /\ ui.currentQuestionIndex > 0 \/ ui.showResult)
     => /\ ui'.questions = ui.questions
        /\ ui'.currentQuestionIndex = ui.currentQuestionIndex
        /\ ui'.score = ui.score + (IF ui'.isCorrect THEN 1 ELSE 0)]_vars

\* C30: the score passed to onQuizComplete equals the number of questions
\* of the quiz that were answered correctly, and is never greater than the
\* total passed with it.
C30_ScoreIsCorrectAnswers ==
  ui.completed # <<>>
  => /\ ui.completed[1] = ui.correct
     /\ ui.completed[1] <= ui.completed[2]

====
